---- MODULE Spec2Model ----
(***************************************************************************)
(* mtsp_solver of task_scheduling/mtsp_problem.py: the constraint system   *)
(* handed to the MILP optimiser and the route-extraction loop that walks   *)
(* the selected edges.  The optimiser is a black box: it returns any       *)
(* assignment that satisfies the constraints (the optimum, or an incumbent *)
(* when the time limit cuts the search), or no assignment at all.  The     *)
(* objective coefficients cost[i, j] enter no constraint and are left out. *)
(***************************************************************************)
EXTENDS Integers, Sequences, FiniteSets, TLC

\* Bounds of the model
MaxN == 5            \* largest cost matrix is MaxN x MaxN
MaxSalesmen == 2     \* salesmen in 1..MaxSalesmen
MaxCities == 3       \* explicit min_cities / max_cities in 1..MaxCities
MalN == 3            \* largest node count of the arbitrary edge lists

VARIABLES n, salesmen, min_cities, max_cities,
          status, solution, u_vars,
          selected, routes, i, next_city, finished, pc

vars == <<n, salesmen, min_cities, max_cities, status, solution, u_vars,
          selected, routes, i, next_city, finished, pc>>

\* Python's None for an optional argument; a given value v is <<v>>
None == << >>

Nodes(nn) == 0 .. (nn - 1)
Cities(nn) == 1 .. (nn - 1)

\* K and L of the formulation (defaults 2 and n)
K == IF min_cities = None THEN 2 ELSE min_cities[1]
L == IF max_cities = None THEN n ELSE max_cities[1]

\* gurobipy.quicksum over the index set S
RECURSIVE quicksum(_, _)
quicksum(f, S) ==
    IF S = {} THEN 0
    ELSE LET x == CHOOSE y \in S : TRUE
         IN  f[x] + quicksum(f, S \ {x})

-----------------------------------------------------------------------------
\* The constraints, one definition per addConstr / bound of the source

SelfLoopBound_NoBound(e, nn) == TRUE
\* e_vars[i, i].ub = 0
SelfLoopBound(e, nn) == \A a \in Nodes(nn) : e[<<a, a>>] <= 0

\* sum of e[0, i] over the cities == salesmen
DepotOutConstr(e, nn, k) ==
    quicksum([c \in Cities(nn) |-> e[<<0, c>>]], Cities(nn)) = k

\* sum of e[i, 0] over the cities == salesmen
DepotInConstr(e, nn, k) ==
    quicksum([c \in Cities(nn) |-> e[<<c, 0>>]], Cities(nn)) = k

\* every city has one outgoing edge
OutDegreeConstr(e, nn) ==
    \A a \in Cities(nn) :
        quicksum([b \in Nodes(nn) \ {a} |-> e[<<a, b>>]], Nodes(nn) \ {a}) = 1

InDegreeConstr_Dropped(e, nn) == TRUE
\* every city has one incoming edge
InDegreeConstr(e, nn) ==
    \A a \in Cities(nn) :
        quicksum([b \in Nodes(nn) \ {a} |-> e[<<b, a>>]], Nodes(nn) \ {a}) = 1

\* u[i] + (L - 2) * e[0, i] - e[i, 0] <= L - 1
UpperBoundConstr(e, a, ua, ll) ==
    ua + (ll - 2) * e[<<0, a>>] - e[<<a, 0>>] <= ll - 1

LowerBoundConstr_Dropped(e, a, ua, kk) == TRUE
\* u[i] + e[0, i] + (2 - K) * e[i, 0] >= 2
LowerBoundConstr(e, a, ua, kk) ==
    ua + e[<<0, a>>] + (2 - kk) * e[<<a, 0>>] >= 2

MutualExclConstr_Dropped(e, nn) == TRUE
\* e[0, i] + e[i, 0] <= 1
MutualExclConstr(e, nn) ==
    \A a \in Cities(nn) : e[<<0, a>>] + e[<<a, 0>>] <= 1

SubtourConstr_Dropped(e, a, b, ua, ub, ll) == TRUE
\* u[i] - u[j] + L * e[i, j] + (L - 2) * e[j, i] <= L - 1
SubtourConstr(e, a, b, ua, ub, ll) ==
    ua - ub + ll * e[<<a, b>>] + (ll - 2) * e[<<b, a>>] <= ll - 1

-----------------------------------------------------------------------------
\* The optimiser

\* The constraints over e_vars alone
EdgeConstraints(e, nn, k) ==
    /\ SelfLoopBound(e, nn)
    /\ DepotOutConstr(e, nn, k)
    /\ DepotInConstr(e, nn, k)
    /\ OutDegreeConstr(e, nn)
    /\ InDegreeConstr(e, nn)
    /\ MutualExclConstr(e, nn)

\* The binary matrix whose depot row has its 1s in the columns D and whose
\* city row c has its single 1 in column succ[c] (none when succ[c] = nn).
\* A binary row of a city that meets OutDegreeConstr has a single 1.
Matrix(D, succ, nn) ==
    [p \in Nodes(nn) \X Nodes(nn) |->
        IF \/ p[1] = 0 /\ p[2] \in D
           \/ p[1] # 0 /\ succ[p[1]] = p[2]
        THEN 1 ELSE 0]

\* The search fixes the depot row and the city rows apart, keeping the rows
\* that meet the constraints reading only them (the other rows held at 0,
\* which SelfLoopBound allows), and then joins them under every constraint.
DepotRows(nn, k) ==
    { D \in SUBSET Nodes(nn) :
        LET e == Matrix(D, [c \in Cities(nn) |-> nn], nn)
        IN  SelfLoopBound(e, nn) /\ DepotOutConstr(e, nn, k) }

CityRows(nn, k) ==
    { succ \in [Cities(nn) -> Nodes(nn)] :
        LET e == Matrix({}, succ, nn)
        IN  SelfLoopBound(e, nn) /\ DepotInConstr(e, nn, k)
                                 /\ OutDegreeConstr(e, nn) }

\* Assignments of e_vars meeting the constraints over e_vars, per (n, salesmen)
EdgeFeasible ==
    [nn \in 1 .. MaxN, k \in 1 .. MaxSalesmen |->
        { e \in { Matrix(D, succ, nn) : D \in DepotRows(nn, k),
                                        succ \in CityRows(nn, k) } :
            EdgeConstraints(e, nn, k) }]

\* Assignments of u_vars[1 .. c] (integers in 0 .. L) meeting, with e, the
\* constraints that mention only those variables; found city by city.
\* u_vars[0] is created at line 78 but enters no constraint and is left out.
RECURSIVE UAssignments(_, _, _, _)
UAssignments(e, c, kk, ll) ==
    IF c = 0 THEN { << >> }
    ELSE { Append(u, v) : u \in UAssignments(e, c - 1, kk, ll),
                          v \in { w \in 0 .. ll :
                                    /\ UpperBoundConstr(e, c, w, ll)
                                    /\ LowerBoundConstr(e, c, w, kk) } }

USolutions(e, nn, kk, ll) ==
    { u \in UAssignments(e, nn - 1, kk, ll) :
        \A a, b \in Cities(nn) :
            a # b => SubtourConstr(e, a, b, u[a], u[b], ll) }

\* Is there an assignment of all the variables meeting all the constraints
Feasible(nn, k, kk, ll) ==
    \E e \in EdgeFeasible[nn, k] : USolutions(e, nn, kk, ll) # {}

SelectedList_NoThreshold(sol, nn) ==
    [x \in 1 .. nn * nn |-> <<(x - 1) \div nn, (x - 1) % nn>>]
\* selected = [(i, j) for i in range(n) for j in range(n) if solution[i, j] > 0.5]
SelectedList(sol, nn) ==
    SelectSeq([x \in 1 .. nn * nn |-> <<(x - 1) \div nn, (x - 1) % nn>>],
              LAMBDA p : 2 * sol[p] > 1)

-----------------------------------------------------------------------------
\* The extraction loop

\* index of the first edge of the list whose source is city, 0 when none
FirstMatch(sel, city) ==
    IF \E j \in 1 .. Len(sel) : sel[j][1] = city
    THEN CHOOSE j \in 1 .. Len(sel) :
            /\ sel[j][1] = city
            /\ \A h \in 1 .. (j - 1) : sel[h][1] # city
    ELSE 0

Pop_Keep(sel, j) == sel
\* selected.pop(j)
Pop(sel, j) == SubSeq(sel, 1, j - 1) \o SubSeq(sel, j + 1, Len(sel))

Visit_SkipDepot(rs, r, city) ==
    IF city = 0 THEN rs ELSE [rs EXCEPT ![r] = Append(@, city)]
\* routes[i].append(next_city)
Visit(rs, r, city) == [rs EXCEPT ![r] = Append(@, city)]

-----------------------------------------------------------------------------
\* State after the arguments are bound and the model is built (line 104)

OptionalCities == {None} \cup { <<v>> : v \in 1 .. MaxCities }

Init ==
    /\ n \in 1 .. MaxN
    /\ salesmen \in 1 .. MaxSalesmen
    /\ min_cities \in OptionalCities
    /\ max_cities \in OptionalCities
    /\ status = "BUILT"
    /\ solution = << >>
    /\ u_vars = << >>
    /\ selected = << >>
    /\ routes = << >>
    /\ i = 0
    /\ next_city = 0
    /\ finished = FALSE
    /\ pc = "optimize"

\* m.optimize() finds an assignment; solution and selected are read from it
Optimize ==
    /\ pc = "optimize"
    /\ \E e \in EdgeFeasible[n, salesmen] :
         \E u \in USolutions(e, n, K, L) :
            /\ solution' = e
            /\ u_vars' = u
            /\ selected' = SelectedList(e, n)
    /\ status' = "SOLVED"
    /\ routes' = << >>
    /\ i' = 0
    /\ pc' = "for"
    /\ UNCHANGED <<n, salesmen, min_cities, max_cities, next_city, finished>>

\* m.optimize() proves there is no assignment; m.getAttr('X', ...) raises
Infeasible ==
    /\ pc = "optimize"
    /\ ~ Feasible(n, salesmen, K, L)
    /\ status' = "INFEASIBLE"
    /\ pc' = "raised"
    /\ UNCHANGED <<n, salesmen, min_cities, max_cities, solution, u_vars,
                   selected, routes, i, next_city, finished>>

\* m.optimize() stops at TimeLimit with no incumbent; m.getAttr('X', ...) raises
TimeLimit ==
    /\ pc = "optimize"
    /\ status' = "TIME_LIMIT"
    /\ pc' = "raised"
    /\ UNCHANGED <<n, salesmen, min_cities, max_cities, solution, u_vars,
                   selected, routes, i, next_city, finished>>

\* for i in range(salesmen): routes.append([]); next_city = 0; finished = False
ForStart ==
    /\ pc = "for"
    /\ i < salesmen
    /\ routes' = Append(routes, << >>)
    /\ next_city' = 0
    /\ finished' = FALSE
    /\ pc' = "while"
    /\ UNCHANGED <<n, salesmen, min_cities, max_cities, status, solution,
                   u_vars, selected, i>>

\* a loop that gives up when the scan finds no edge
WhileIter_GiveUp ==
    /\ pc = "while"
    /\ ~ finished
    /\ LET j == FirstMatch(selected, next_city)
           city == IF j = 0 THEN next_city ELSE selected[j][2]
       IN  /\ routes' = IF j = 0 THEN routes ELSE Visit(routes, i + 1, next_city)
           /\ next_city' = city
           /\ selected' = IF j = 0 THEN selected ELSE Pop(selected, j)
           /\ finished' = IF city = 0 \/ j = 0 THEN TRUE ELSE finished
    /\ UNCHANGED <<n, salesmen, min_cities, max_cities, status, solution,
                   u_vars, i, pc>>

\* one iteration of the while loop: the scan of selected, then the depot test
WhileIter ==
    /\ pc = "while"
    /\ ~ finished
    /\ LET j == FirstMatch(selected, next_city)
           city == IF j = 0 THEN next_city ELSE selected[j][2]
       IN  /\ routes' = IF j = 0 THEN routes ELSE Visit(routes, i + 1, next_city)
           /\ next_city' = city
           /\ selected' = IF j = 0 THEN selected ELSE Pop(selected, j)
           /\ finished' = IF city = 0 THEN TRUE ELSE finished
    /\ UNCHANGED <<n, salesmen, min_cities, max_cities, status, solution,
                   u_vars, i, pc>>

\* the while loop ends; the for loop moves to the next salesman
WhileExit ==
    /\ pc = "while"
    /\ finished
    /\ i' = i + 1
    /\ pc' = "for"
    /\ UNCHANGED <<n, salesmen, min_cities, max_cities, status, solution,
                   u_vars, selected, routes, next_city, finished>>

\* return routes, m.objVal, m
Return ==
    /\ pc = "for"
    /\ i >= salesmen
    /\ pc' = "done"
    /\ UNCHANGED <<n, salesmen, min_cities, max_cities, status, solution,
                   u_vars, selected, routes, i, next_city, finished>>

Next ==
    \/ Optimize
    \/ Infeasible
    \/ TimeLimit
    \/ ForStart
    \/ WhileIter
    \/ WhileExit
    \/ Return

Spec == Init /\ [][Next]_vars

\* The statements of the extraction loop
Extract ==
    \/ ForStart
    \/ WhileIter
    \/ WhileExit
    \/ Return

\* The interpreter keeps executing the statements of the extraction loop
FairSpec == Spec /\ WF_vars(Extract)

-----------------------------------------------------------------------------
\* The extraction loop over an arbitrary selected edge list: the state after
\* line 114 when the assignment read from the optimiser is any binary matrix

MalformedInit ==
    /\ n \in 1 .. MalN
    /\ salesmen \in 1 .. MaxSalesmen
    /\ min_cities = None
    /\ max_cities = None
    /\ status = "ANY"
    /\ \E sol \in [Nodes(n) \X Nodes(n) -> {0, 1}] :
          /\ solution = sol
          /\ selected = SelectedList(sol, n)
    /\ u_vars = << >>
    /\ routes = << >>
    /\ i = 0
    /\ next_city = 0
    /\ finished = FALSE
    /\ pc = "for"

MalformedNext ==
    \/ ForStart
    \/ WhileIter
    \/ WhileExit
    \/ Return

MalformedSpec == MalformedInit /\ [][MalformedNext]_vars

-----------------------------------------------------------------------------
\* Properties

\* number of cities of a route, the depot entry not counted
NumCities(r) == Len(r) - 1

\* is the edge a -> b selected in the assignment
IsSelected(a, b) == 2 * solution[<<a, b>>] > 1

RECURSIVE TotalLength(_)
TotalLength(rs) == IF rs = << >> THEN 0 ELSE Len(Head(rs)) + TotalLength(Tail(rs))

\* C1: with one salesman and n >= 2 the extraction returns one route that
\* starts at the depot, lists each of the n nodes once, follows a selected
\* edge between consecutive entries and closes with a selected edge to 0.
C1_SingleCycle ==
    (pc = "done" /\ salesmen = 1 /\ n >= 2) =>
        /\ Len(routes) = 1
        /\ Len(routes[1]) = n
        /\ routes[1][1] = 0
        /\ \A v \in Nodes(n) : Cardinality({p \in 1 .. n : routes[1][p] = v}) = 1
        /\ \A p \in 1 .. (n - 1) : IsSelected(routes[1][p], routes[1][p + 1])
        /\ IsSelected(routes[1][n], 0)

C1_Witness == pc = "done" /\ salesmen = 1 /\ n = 4 /\ routes = << <<0, 2, 3, 1>> >>

\* C2: with k > 1 salesmen the extraction returns k routes, each non-empty
\* and starting at the depot, and every city is in exactly one route, once.
C2_Partition ==
    (pc = "done" /\ salesmen > 1) =>
        /\ Len(routes) = salesmen
        /\ \A r \in 1 .. Len(routes) : Len(routes[r]) >= 1 /\ routes[r][1] = 0
        /\ \A v \in Cities(n) :
              Cardinality({ rp \in UNION { {r} \X (1 .. Len(routes[r])) :
                                           r \in 1 .. Len(routes) } :
                            routes[rp[1]][rp[2]] = v }) = 1

C2_Witness ==
    /\ pc = "done" /\ salesmen = 2 /\ n = 5
    /\ routes = << <<0, 1, 3>>, <<0, 2, 4>> >>

\* C3 as stated: with k > 1 salesmen the lengths of the routes add up to n.
C3_SumIsN ==
    (pc = "done" /\ salesmen > 1) => TotalLength(routes) = n

\* C3 amended: with k > 1 salesmen the lengths of the routes add up to
\* n + k - 1, every route listing the depot besides its cities.
C3_SumIsNPlusKMinus1 ==
    (pc = "done" /\ salesmen > 1) => TotalLength(routes) = n + salesmen - 1

C3_Witness == pc = "done" /\ salesmen = 2 /\ n = 5 /\ TotalLength(routes) = 6

\* C4: every extracted route has between K and L cities, the depot excluded.
C4_RouteBounds ==
    pc = "done" =>
        \A r \in 1 .. Len(routes) :
            K <= NumCities(routes[r]) /\ NumCities(routes[r]) <= L

C4_Witness ==
    /\ pc = "done" /\ min_cities = <<3>> /\ max_cities = <<3>>
    /\ \E r \in 1 .. Len(routes) : NumCities(routes[r]) = 3

\* C5: an assignment meeting the constraints selects no self-loop and no
\* cycle of edges that stays among the cities (avoids the depot).
C5_NoSubtour ==
    status = "SOLVED" =>
        /\ \A a \in Nodes(n) : ~ IsSelected(a, a)
        /\ \A S \in SUBSET Cities(n) :
              S # {} => \E a \in S : \A b \in S : ~ IsSelected(a, b)

C5_Witness == status = "SOLVED" /\ pc = "for" /\ i = 0 /\ n = 5 /\ salesmen = 1

\* number of entries of the edge list with the given source / destination
OutCount(sel, a) == Cardinality({j \in 1 .. Len(sel) : sel[j][1] = a})
InCount(sel, a) == Cardinality({j \in 1 .. Len(sel) : sel[j][2] = a})

\* C6: in the selected edge list as read from the assignment every city has
\* one incoming and one outgoing edge, the depot has salesmen of each, and
\* n - 1 + salesmen edges are selected.
C6_Degrees ==
    (status = "SOLVED" /\ pc = "for" /\ i = 0) =>
        /\ \A c \in Cities(n) : OutCount(selected, c) = 1 /\ InCount(selected, c) = 1
        /\ OutCount(selected, 0) = salesmen
        /\ InCount(selected, 0) = salesmen
        /\ Len(selected) = n - 1 + salesmen

C6_Witness ==
    /\ status = "SOLVED" /\ pc = "for" /\ i = 0 /\ n = 5 /\ salesmen = 2
    /\ Len(selected) = 6

\* C7 as stated: for n = 1 and salesmen = 1 the constraint system has an
\* assignment (the optimiser does not report infeasibility) and the call
\* returns an empty or single-node route.
C7_DegenerateSolves ==
    (n = 1 /\ salesmen = 1) =>
        /\ status # "INFEASIBLE"
        /\ pc = "done" => routes \in { << << >> >>, << <<0>> >> }

\* C8: on an assignment meeting the constraints the extraction terminates:
\* a walk consumes at most n edges, every iteration of the while loop finds
\* and consumes exactly one edge, and the edge list is empty at the return.
C8_Terminates ==
    /\ [](status = "SOLVED" =>
            /\ pc = "while" => Len(routes[i + 1]) <= n
            /\ (pc = "while" /\ ~ finished) => FirstMatch(selected, next_city) # 0
            /\ pc = "done" => selected = << >>)
    /\ [][(status = "SOLVED" /\ pc = "while" /\ ~ finished) =>
             Len(selected') = Len(selected) - 1]_vars
    /\ (status = "SOLVED" ~> pc = "done")

C8_Witness ==
    /\ pc = "done" /\ salesmen = 2 /\ selected = << >>
    /\ Len(routes) = 2 /\ TotalLength(routes) = 6

\* the walk stands on a city that has no unconsumed outgoing edge
Stuck ==
    /\ pc = "while"
    /\ ~ finished
    /\ next_city # 0
    /\ FirstMatch(selected, next_city) = 0

\* C9: once the walk stands on a city with no unconsumed outgoing edge, the
\* loop stays there: finished is never set, nothing is raised and next_city,
\* selected and routes do not change any more.
C9_LoopsForever ==
    [][Stuck => (Stuck' /\ UNCHANGED <<next_city, selected, routes, finished, pc>>)]_vars

C9_Witness == Stuck /\ Len(routes) = 1 /\ Len(routes[1]) >= 1 /\ selected # << >>

\* C10: every extracted route has at least 2 cities whatever min_cities is,
\* and there is no assignment when n - 1 < 2 * salesmen.
C10_AtLeastTwo ==
    /\ pc = "done" => \A r \in 1 .. Len(routes) : NumCities(routes[r]) >= 2
    /\ n - 1 < 2 * salesmen => status # "SOLVED"

C10_Witness ==
    /\ pc = "done" /\ min_cities = <<1>>
    /\ \E r \in 1 .. Len(routes) : NumCities(routes[r]) = 2

====
